---------------------------- MODULE Spec2Model ----------------------------
(***************************************************************************)
(* A model of the agentic_rag repository: the persistent vector store      *)
(* (vectordb.py), the chunker (chunking.py), the ingestion loop            *)
(* (ingest.py) and the question answering of rag_agent.py.                 *)
(*                                                                         *)
(* Conventions.                                                            *)
(*  - A Python str is a sequence of one-character strings.                 *)
(*  - An Optional[int] is <<>> (None) or <<n>>.                            *)
(*  - A file is [exists, lines] (the record log) or [exists, rows] (the    *)
(*    embedding matrix); a missing file has exists = FALSE.                *)
(*  - A float is an integer count of half-ulps of float32, so the even     *)
(*    numbers are the float32 values and the odd ones are float64 values   *)
(*    that float32 cannot hold (see F32).                                  *)
(***************************************************************************)
EXTENDS Integers, Sequences, FiniteSets, TLC

VARIABLES
    \* ---- persisted state of one collection (vectordb.py:24-25)
    metaFile,        \* <persist_dir>/<collection>_meta.jsonl
    embFile,         \* <persist_dir>/<collection>_emb.npy
    \* ---- in-memory state of the VectorDB object (vectordb.py:27-30)
    _ids, _docs, _metas, _emb,
    \* ---- the process that owns the VectorDB object
    pc,              \* where the process is
    call,            \* the last VectorDB operation begun, and its arguments
    result,          \* what the last query returned
    \* ---- ingest.py main()
    all_chunks, existing_ids, i, batch_ids, batch_docs, batch_metas, batch_embs,
    items_in_window,
    run,             \* number of the ingestion run (process) in progress
    trace,           \* calls made by the current run, in order
    committed,       \* records of every batch whose add() call has returned
    lastRunOK,       \* the previous ingestion run reached its last line
    crashedInAdd,    \* some process died inside add()'s file writes
    \* ---- chunking.py chunk_text()
    cargs,           \* the arguments chunk_text was called with
    text, chunk_size, overlap, start, chunks,
    windows,         \* the (start, end) of every slice the loop has taken
    cpc,
    \* ---- rag_agent.py format_context() and agentic_answer()
    fargs,           \* the arguments format_context was called with
    items,           \* the citation-tagged chunks format_context kept
    context,         \* the string format_context returned
    q_emb,           \* the embedding of the question
    acalls,          \* the service calls agentic_answer has made, in order
    response,        \* what agentic_answer returned
    apc,
    \* ---- what an interrupted write leaves in the two files
    metaTorn,        \* the record log ends in an incomplete line
    embTorn,         \* the matrix file was cut short while being written
    \* ---- a second process (a query) that constructs VectorDB on the collection
    reader,
    \* ---- ingest.py stable_id() applied to two chunks
    id_args, id_out, id_pc

storeVars == <<metaFile, embFile, _ids, _docs, _metas, _emb, pc, call, result>>
ingestVars == <<all_chunks, existing_ids, i, batch_ids, batch_docs, batch_metas,
                batch_embs, items_in_window, run, trace, committed, lastRunOK,
                crashedInAdd>>
chunkVars == <<cargs, text, chunk_size, overlap, start, chunks, windows, cpc>>
answerVars == <<fargs, items, context, q_emb, acalls, response, apc>>
tornVars == <<metaTorn, embTorn>>
readerVars == <<reader>>
idVars == <<id_args, id_out, id_pc>>
extraVars == <<answerVars, tornVars, readerVars, idVars>>
vars == <<storeVars, ingestVars, chunkVars, extraVars>>

---------------------------------------------------------------------------
(* Generic helpers *)

Range(s) == {s[k] : k \in 1..Len(s)}

Min(a, b) == IF a < b THEN a ELSE b

Max(a, b) == IF a > b THEN a ELSE b

\* All sequences over S of length lo..hi.
SeqsOf(S, lo, hi) == UNION {[1..n -> S] : n \in lo..hi}

---------------------------------------------------------------------------
(* Data the model draws its inputs from *)

None == <<>>

\* The chunk records chunk_docs can hand to the pipeline: {text, metadata}.
\* Two chunks share a text (so their embeddings are equal), one text holds a
\* newline, and the sources and pages differ.
Chunks ==
    { [text |-> <<"x">>,            metadata |-> [source |-> <<"a">>, page |-> None]],
      [text |-> <<"y", "\n", "z">>, metadata |-> [source |-> <<"a">>, page |-> None]],
      [text |-> <<"x">>,            metadata |-> [source |-> <<"b">>, page |-> <<1>>]],
      [text |-> <<"w", "\"">>,      metadata |-> [source |-> <<"b">>, page |-> <<2>>]] }

\* The embedding service: one vector per text, the same text giving the same
\* vector (float64 values, in half-ulps of float32).
EmbedOf(t) ==
    CASE t = <<"x">>            -> <<4, 0>>
      [] t = <<"y", "\n", "z">> -> <<1, 3>>
      [] OTHER                  -> <<8, 2>>

\* The query vectors a caller may pass (float64 values).
QueryVecs == { <<4, 0>>, <<3, 5>>, <<0, 0>> }

---------------------------------------------------------------------------
(* ingest.py: stable_id *)

RECURSIVE Digits(_)
\* str(n) for an int n >= 0.
Digits(n) ==
    LET d == <<"0", "1", "2", "3", "4", "5", "6", "7", "8", "9">>
    IN  IF n < 10 THEN <<d[n + 1]>> ELSE Digits(n \div 10) \o <<d[(n % 10) + 1]>>

\* str(page) for page: int | None.
PageStr(page) == IF page = None THEN <<"N", "o", "n", "e">> ELSE Digits(page[1])

\* sha256(source + str(page) + text).hexdigest()[:24]. The digest is kept as
\* the string that was hashed: the hash is taken as collision-free.
stable_id(source, page, txt) == [sha |-> source \o PageStr(page) \o txt]

---------------------------------------------------------------------------
(* vectordb.py: the record log's JSON lines *)

\* json.dumps of one character inside a string (ensure_ascii=False).
JsonEscape(c) ==
    CASE c = "\n" -> "\\n"
      [] c = "\"" -> "\\\""
      [] c = "\\" -> "\\\\"
      [] OTHER    -> c

\* json.loads of one escaped character.
JsonUnescape(e) ==
    CASE e = "\\n"  -> "\n"
      [] e = "\\\"" -> "\""
      [] e = "\\\\" -> "\\"
      [] OTHER      -> e

JsonDumpsStr(s) == [k \in 1..Len(s) |-> JsonEscape(s[k])]

JsonLoadsStr(s) == [k \in 1..Len(s) |-> JsonUnescape(s[k])]

RECURSIVE ParseInt(_)
ParseInt(ds) ==
    LET v(c) == CHOOSE n \in 0..9 : Digits(n) = <<c>>
    IN  IF Len(ds) = 1 THEN v(ds[1])
        ELSE 10 * ParseInt(SubSeq(ds, 1, Len(ds) - 1)) + v(ds[Len(ds)])

\* json.dumps / json.loads of metadata["page"]: None <-> null, int <-> digits.
JsonDumpsPage(page) == IF page = None THEN <<"n", "u", "l", "l">> ELSE Digits(page[1])

JsonLoadsPage(j) == IF j = <<"n", "u", "l", "l">> THEN None ELSE <<ParseInt(j)>>

\* json.dumps({"id": i, "document": doc, "metadata": meta}, ensure_ascii=False)
\* + "\n": one line of the log. The id is a hex string, which JSON leaves as is.
json_dumps(rec) ==
    [id       |-> rec.id,
     document |-> JsonDumpsStr(rec.document),
     metadata |-> [source |-> JsonDumpsStr(rec.metadata.source),
                   page   |-> JsonDumpsPage(rec.metadata.page)]]

\* json.loads(line)
json_loads(line) ==
    [id       |-> line.id,
     document |-> JsonLoadsStr(line.document),
     metadata |-> [source |-> JsonLoadsStr(line.metadata.source),
                   page   |-> JsonLoadsPage(line.metadata.page)]]

---------------------------------------------------------------------------
(* vectordb.py: floats and cosine similarity *)

\* np.array(..., dtype=np.float32) on one float64 value: round to the nearest
\* float32, ties to the even mantissa. Values are counted in half-ulps, so the
\* float32 values are the even numbers and an odd number lies half way.
F32(x) == IF x % 2 = 0 THEN x ELSE IF (x - 1) % 4 = 0 THEN x - 1 ELSE x + 1

ToF32(v) == [k \in 1..Len(v) |-> F32(v[k])]

RECURSIVE DotUpTo(_, _, _)
DotUpTo(a, b, n) == IF n = 0 THEN 0 ELSE DotUpTo(a, b, n - 1) + a[n] * b[n]

Dot(a, b) == DotUpTo(a, b, Len(a))

NormSq(a) == Dot(a, a)

\* One entry of _cosine_sim_matrix: (m / (|m| + 1e-12)) . (q / (|q| + 1e-12)).
\* The similarity is kept exactly, as num / sqrt(den2). A zero vector divided
\* by 1e-12 stays zero, so its similarity is 0; for any other vector of these
\* magnitudes the 1e-12 is below float32's resolution.
CosSim(q, m) ==
    IF NormSq(q) = 0 \/ NormSq(m) = 0
    THEN [num |-> 0, den2 |-> 1]
    ELSE [num |-> Dot(m, q), den2 |-> NormSq(m) * NormSq(q)]

_cosine_sim_matrix(q, mat) == [k \in 1..Len(mat) |-> CosSim(q, mat[k])]

Sign(n) == IF n > 0 THEN 1 ELSE IF n < 0 THEN -1 ELSE 0

\* a < b for two similarities num / sqrt(den2).
SimLT(a, b) ==
    IF Sign(a.num) # Sign(b.num) THEN Sign(a.num) < Sign(b.num)
    ELSE IF Sign(a.num) > 0 THEN a.num * a.num * b.den2 < b.num * b.num * a.den2
    ELSE IF Sign(a.num) < 0 THEN a.num * a.num * b.den2 > b.num * b.num * a.den2
    ELSE FALSE

SimEq(a, b) == ~SimLT(a, b) /\ ~SimLT(b, a)

\* float(1.0 - sims[i]): the value 1 - num / sqrt(den2), kept exactly.
Distance(s) == [one |-> 1, num |-> s.num, den2 |-> s.den2]

\* The orderings of the index set S in which the similarity never increases.
RECURSIVE Descending(_, _)
Descending(sims, S) ==
    IF S = {} THEN {<<>>}
    ELSE LET top == {m \in S : \A k \in S : ~SimLT(sims[m], sims[k])}
         IN  UNION {{<<m>> \o rest : rest \in Descending(sims, S \ {m})} : m \in top}

\* The orderings of the index set S in which the similarity never decreases.
RECURSIVE Ascending(_, _)
Ascending(sims, S) ==
    IF S = {} THEN {<<>>}
    ELSE LET low == {m \in S : \A k \in S : ~SimLT(sims[k], sims[m])}
         IN  UNION {{<<m>> \o rest : rest \in Ascending(sims, S \ {m})} : m \in low}

\* Mutant of argsort_desc: np.argsort(sims), the minus sign forgotten.
argsort_asc(sims) == Ascending(sims, 1..Len(sims))

\* np.argsort(-sims), default kind ("quicksort"): the indices in ascending order
\* of -sims. NumPy's default sort is not stable, so among equal keys any order
\* can come back; every ordering that sorts the keys is a possible result.
argsort_desc(sims) == Descending(sims, 1..Len(sims))

\* s[:k] of Python.
SliceTo(s, k) ==
    IF k >= 0 THEN SubSeq(s, 1, Min(k, Len(s))) ELSE SubSeq(s, 1, Max(Len(s) + k, 0))

---------------------------------------------------------------------------
(* vectordb.py: class VectorDB *)

NoMetaFile == [exists |-> FALSE, lines |-> <<>>]

NoEmbFile == [exists |-> FALSE, rows |-> <<>>]

\* self._emb = None
NoEmb == [present |-> FALSE, rows |-> <<>>]

\* The records _load reads from the log, in file order.
ReadLog(f) ==
    IF f.exists THEN [k \in 1..Len(f.lines) |-> json_loads(f.lines[k])] ELSE <<>>

\* np.load(self.emb_path) if the file exists, else None.
ReadEmb(f) == IF f.exists THEN [present |-> TRUE, rows |-> f.rows] ELSE NoEmb

\* Mutant of Mismatch: only the case the code's comment names ("meta exists
\* but emb missing") is tested.
Mismatch_missing_only(ids, emb) == ~emb.present /\ Len(ids) > 0

\* The sanity test of _load: (emb is None and len(ids) > 0) or
\* (emb is not None and emb.shape[0] != len(ids)).
Mismatch(ids, emb) ==
    \/ ~emb.present /\ Len(ids) > 0
    \/ emb.present /\ Len(emb.rows) # Len(ids)

\* __init__ (the lists start empty, _emb None) followed by _load.
_load ==
    LET recs == ReadLog(metaFile)
        ids  == [k \in 1..Len(recs) |-> recs[k].id]
        emb  == ReadEmb(embFile)
    IN  IF Mismatch(ids, emb)
        THEN /\ _ids' = <<>>
             /\ _docs' = <<>>
             /\ _metas' = <<>>
             /\ _emb' = NoEmb
             /\ metaFile' = NoMetaFile
             /\ embFile' = NoEmbFile
        ELSE /\ _ids' = ids
             /\ _docs' = [k \in 1..Len(recs) |-> recs[k].document]
             /\ _metas' = [k \in 1..Len(recs) |-> recs[k].metadata]
             /\ _emb' = emb
             /\ UNCHANGED <<metaFile, embFile>>

\* The lines add() appends to the log: one per element of
\* zip(ids, documents, metadatas).
LogLines(ids, documents, metadatas) ==
    [k \in 1..Min(Len(ids), Min(Len(documents), Len(metadatas))) |->
        json_dumps([id |-> ids[k], document |-> documents[k], metadata |-> metadatas[k]])]

\* Mutant of Stacked: self._emb = emb_new, the rows held so far dropped.
Stacked_replace(emb, emb_new) == [present |-> TRUE, rows |-> emb_new]

\* Mutant of Stacked: np.vstack([emb_new, self._emb]), the new rows in front.
Stacked_front(emb, emb_new) ==
    IF ~emb.present THEN [present |-> TRUE, rows |-> emb_new]
    ELSE [present |-> TRUE, rows |-> emb_new \o emb.rows]

\* np.vstack([self._emb, emb_new]), or emb_new when self._emb is None.
Stacked(emb, emb_new) ==
    IF ~emb.present THEN [present |-> TRUE, rows |-> emb_new]
    ELSE [present |-> TRUE, rows |-> emb.rows \o emb_new]

\* add(), from its first line to the line before np.save: the log append, the
\* three list extends and the new in-memory matrix.
add_append(ids, embeddings, documents, metadatas) ==
    LET emb_new == [k \in 1..Len(embeddings) |-> ToF32(embeddings[k])]
    IN  /\ metaFile' = [exists |-> TRUE,
                        lines  |-> metaFile.lines \o LogLines(ids, documents, metadatas)]
        /\ _ids' = _ids \o ids
        /\ _docs' = _docs \o documents
        /\ _metas' = _metas \o metadatas
        /\ _emb' = Stacked(_emb, emb_new)
        /\ UNCHANGED embFile

\* Mutant of add_save: np.save(self.emb_path, emb_new), only the rows of this
\* call written (the rows past those the file held).
add_save_new_rows_only ==
    /\ embFile' = [exists |-> TRUE,
                   rows   |-> SubSeq(_emb.rows, Len(embFile.rows) + 1, Len(_emb.rows))]
    /\ UNCHANGED <<metaFile, _ids, _docs, _metas, _emb>>

\* add(), its last line: np.save(self.emb_path, self._emb).
add_save ==
    /\ embFile' = [exists |-> TRUE, rows |-> _emb.rows]
    /\ UNCHANGED <<metaFile, _ids, _docs, _metas, _emb>>

EmptyResult == [documents |-> <<>>, metadatas |-> <<>>, distances |-> <<>>]

\* The results query() can return for (embedding, top_k).
query(embedding, top_k) ==
    IF ~_emb.present \/ Len(_emb.rows) = 0
    THEN {EmptyResult}
    ELSE LET q    == ToF32(embedding)
             sims == _cosine_sim_matrix(q, _emb.rows)
         IN  { LET idx == SliceTo(order, top_k)
               IN  [documents |-> [j \in 1..Len(idx) |-> _docs[idx[j]]],
                    metadatas |-> [j \in 1..Len(idx) |-> _metas[idx[j]]],
                    distances |-> [j \in 1..Len(idx) |-> Distance(sims[idx[j]])]]
               : order \in argsort_desc(sims) }

---------------------------------------------------------------------------
(* Bounds *)

\* The store is not grown past this many records.
MaxRecords == 3

\* The longest batch one add() call of Spec is given.
MaxBatch == 2

\* The largest top_k a query is given.
MaxTopK == 4

---------------------------------------------------------------------------
(* Values of the variables a specification does not use *)

\* A call record: the operation, query's arguments, and for a load the number
\* of log lines and of matrix rows it found on disk (-1 rows: no matrix file).
NoCall == [op |-> "none", embedding |-> <<>>, top_k |-> 0, seen_lines |-> 0, seen_rows |-> -1]

LoadCall(mf, ef) ==
    [NoCall EXCEPT !.op = "load",
                   !.seen_lines = IF mf.exists THEN Len(mf.lines) ELSE 0,
                   !.seen_rows = IF ef.exists THEN Len(ef.rows) ELSE -1]

StoreOff ==
    /\ metaFile = NoMetaFile /\ embFile = NoEmbFile
    /\ _ids = <<>> /\ _docs = <<>> /\ _metas = <<>> /\ _emb = NoEmb
    /\ pc = "off" /\ call = NoCall /\ result = EmptyResult

IngestOff ==
    /\ all_chunks = <<>> /\ existing_ids = {} /\ i = 0
    /\ batch_ids = <<>> /\ batch_docs = <<>> /\ batch_metas = <<>> /\ batch_embs = <<>>
    /\ items_in_window = 0 /\ run = 0 /\ trace = <<>> /\ committed = <<>>
    /\ lastRunOK = FALSE /\ crashedInAdd = FALSE

ChunkOff ==
    /\ cargs = [text |-> <<>>, chunk_size |-> 0, overlap |-> 0]
    /\ text = <<>> /\ chunk_size = 0 /\ overlap = 0 /\ start = 0
    /\ chunks = <<>> /\ windows = <<>> /\ cpc = "off"

NoArgs == [docs |-> <<>>, metas |-> <<>>, distances |-> <<>>, max_chars |-> 0]

AnswerOff ==
    /\ fargs = NoArgs /\ items = <<>> /\ context = <<>> /\ q_emb = <<>>
    /\ acalls = <<>> /\ response = "" /\ apc = "off"

TornOff == metaTorn = FALSE /\ embTorn = FALSE

NoReader == [pc |-> "none", _ids |-> <<>>, _docs |-> <<>>, _metas |-> <<>>, _emb |-> NoEmb]

ReaderOff == reader = NoReader

IdOff == id_args = <<>> /\ id_out = <<>> /\ id_pc = "off"

ExtraOff == AnswerOff /\ TornOff /\ ReaderOff /\ IdOff

---------------------------------------------------------------------------
(* Spec: one process at a time owns a VectorDB on the collection and calls  *)
(* add and query on it; it may exit, or die at any point, and the next      *)
(* process constructs VectorDB again. After an exit the variables _ids,     *)
(* _docs, _metas, _emb keep the last values the process held, so that the   *)
(* next construction can be compared with them.                             *)

\* VectorDB(persist_dir, collection_name) in a new process.
Construct ==
    /\ pc \in {"closed", "crashed"}
    /\ _load
    /\ pc' = "idle"
    /\ call' = LoadCall(metaFile, embFile)
    /\ result' = EmptyResult
    /\ UNCHANGED <<ingestVars, chunkVars, extraVars>>

\* vdb.add(...) up to the line before np.save, for a batch of chunks and
\* their embeddings.
AddAppend(batch) ==
    /\ pc = "idle"
    /\ Len(_ids) + Len(batch) <= MaxRecords
    /\ add_append([k \in 1..Len(batch) |->
                      stable_id(batch[k].metadata.source, batch[k].metadata.page,
                                batch[k].text)],
                  [k \in 1..Len(batch) |-> EmbedOf(batch[k].text)],
                  [k \in 1..Len(batch) |-> batch[k].text],
                  [k \in 1..Len(batch) |-> batch[k].metadata])
    /\ pc' = "add_save"
    /\ call' = [NoCall EXCEPT !.op = "add"]
    /\ result' = EmptyResult
    /\ UNCHANGED <<ingestVars, chunkVars, extraVars>>

\* np.save, and add() returns.
AddSave ==
    /\ pc = "add_save"
    /\ add_save
    /\ pc' = "idle"
    /\ UNCHANGED <<call, result, ingestVars, chunkVars, extraVars>>

\* vdb.query(embedding, top_k)
Query(embedding, top_k) ==
    /\ pc = "idle"
    /\ result' \in query(embedding, top_k)
    /\ call' = [NoCall EXCEPT !.op = "query", !.embedding = embedding, !.top_k = top_k]
    /\ pc' = "queried"
    /\ UNCHANGED <<metaFile, embFile, _ids, _docs, _metas, _emb>>
    /\ UNCHANGED <<ingestVars, chunkVars, extraVars>>

\* The caller has taken the result of the query.
QueryReturn ==
    /\ pc = "queried"
    /\ pc' = "idle"
    /\ call' = NoCall
    /\ result' = EmptyResult
    /\ UNCHANGED <<metaFile, embFile, _ids, _docs, _metas, _emb>>
    /\ UNCHANGED <<ingestVars, chunkVars, extraVars>>

\* The process ends between two operations.
Close ==
    /\ pc = "idle"
    /\ pc' = "closed"
    /\ UNCHANGED <<metaFile, embFile, _ids, _docs, _metas, _emb, call, result>>
    /\ UNCHANGED <<ingestVars, chunkVars, extraVars>>

\* The process is killed, between two operations or inside add(). Nothing of
\* the process is left.
Crash ==
    /\ pc \in {"idle", "add_save"}
    /\ pc' = "crashed"
    /\ _ids' = <<>> /\ _docs' = <<>> /\ _metas' = <<>> /\ _emb' = NoEmb
    /\ call' = NoCall /\ result' = EmptyResult
    /\ UNCHANGED <<metaFile, embFile>>
    /\ UNCHANGED <<ingestVars, chunkVars, extraVars>>

\* A first process has constructed VectorDB on an empty directory.
Init ==
    /\ metaFile = NoMetaFile /\ embFile = NoEmbFile
    /\ _ids = <<>> /\ _docs = <<>> /\ _metas = <<>> /\ _emb = NoEmb
    /\ pc = "idle" /\ call = LoadCall(NoMetaFile, NoEmbFile) /\ result = EmptyResult
    /\ IngestOff /\ ChunkOff /\ ExtraOff

Next ==
    \/ Construct
    \/ \E batch \in SeqsOf(Chunks, 1, MaxBatch) : AddAppend(batch)
    \/ AddSave
    \/ \E embedding \in QueryVecs, top_k \in 0..MaxTopK : Query(embedding, top_k)
    \/ QueryReturn
    \/ Close
    \/ Crash

Spec == Init /\ [][Next]_vars

---------------------------------------------------------------------------
(* Claims about the vector store, checked under Spec *)

LogCount(f) == IF f.exists THEN Len(f.lines) ELSE 0

FileRows(f) == IF f.exists THEN Len(f.rows) ELSE 0

\* C1: whenever the process is between two VectorDB operations (after the
\* constructor, an add or a query has returned), ids, documents and metadatas
\* have one length, which is the number of rows of the in-memory matrix, and
\* the log on disk has as many lines as the matrix on disk has rows.
C1_CountsAgree ==
    pc \in {"idle", "queried", "closed"} =>
        /\ Len(_docs) = Len(_ids)
        /\ Len(_metas) = Len(_ids)
        /\ Len(_emb.rows) = Len(_ids)
        /\ LogCount(metaFile) = FileRows(embFile)

\* A second add has returned, on a store that already held a record.
C1_Witness ==
    /\ pc = "idle" /\ call.op = "add"
    /\ Len(_ids) >= 2 /\ LogCount(metaFile) = Len(_ids) /\ FileRows(embFile) = Len(_ids)
    /\ Len(_emb.rows) = Len(_ids)

\* What a load finds on disk that the spec calls corrupt.
FilesDisagree(mf, ef) ==
    \/ LogCount(mf) > 0 /\ ~ef.exists
    \/ ef.exists /\ Len(ef.rows) # LogCount(mf)

\* C2: a construction (_load) that finds a non-empty log with no matrix, or a
\* matrix whose row count is not the number of log lines, ends with the four
\* in-memory fields empty and both files deleted; one that finds the counts
\* equal deletes nothing and keeps every record of the log and every row.
C2_LoadRecovery ==
    [][(pc \in {"closed", "crashed"} /\ pc' = "idle") =>
        IF FilesDisagree(metaFile, embFile)
        THEN /\ _ids' = <<>> /\ _docs' = <<>> /\ _metas' = <<>>
             /\ ~_emb'.present /\ _emb'.rows = <<>>
             /\ ~metaFile'.exists /\ ~embFile'.exists
        ELSE /\ metaFile' = metaFile /\ embFile' = embFile
             /\ Len(_ids') = LogCount(metaFile)
             /\ Len(_docs') = LogCount(metaFile)
             /\ Len(_metas') = LogCount(metaFile)
             /\ \A k \in 1..LogCount(metaFile) :
                    json_dumps([id |-> _ids'[k], document |-> _docs'[k],
                                metadata |-> _metas'[k]]) = metaFile.lines[k]
             /\ _emb'.present = embFile.exists
             /\ _emb'.rows = embFile.rows]_vars

\* A load has found more log lines than matrix rows (a crash inside add on a
\* store that held records) and has emptied the store.
C2_Witness ==
    /\ pc = "idle" /\ call.op = "load"
    /\ call.seen_rows >= 1 /\ call.seen_lines > call.seen_rows
    /\ _ids = <<>> /\ ~_emb.present /\ ~metaFile.exists /\ ~embFile.exists

\* C3: when a process whose add calls have all returned is followed by a new
\* construction on the same collection, the new store holds the same ids,
\* documents, metadatas and embedding rows in the same order as the old one
\* held, and record k with row k is a pair some add was given: the row is the
\* float32 of the embedding of document k, the id is the id of chunk k.
C3_RestartRoundTrip ==
    [][(pc = "closed" /\ pc' = "idle") =>
        /\ _ids' = _ids /\ _docs' = _docs /\ _metas' = _metas /\ _emb' = _emb
        /\ \A k \in 1..Len(_ids') :
              /\ _emb'.rows[k] = ToF32(EmbedOf(_docs'[k]))
              /\ _ids'[k] = stable_id(_metas'[k].source, _metas'[k].page, _docs'[k])]_vars

\* A restart has loaded at least two records, one with a newline in its
\* document, one with a page number and one with page None.
C3_Witness ==
    /\ pc = "idle" /\ call.op = "load" /\ call.seen_lines >= 2
    /\ Len(_ids) = call.seen_lines
    /\ \E k \in 1..Len(_docs) : "\n" \in Range(_docs[k])
    /\ \E k \in 1..Len(_metas) : _metas[k].page # None
    /\ \E k \in 1..Len(_metas) : _metas[k].page = None

\* The similarity of stored record k to the query vector of the last call.
SimOf(k) == CosSim(ToF32(call.embedding), _emb.rows[k])

\* The ways to read the last result as a choice of stored records: position j
\* of documents, metadatas and distances is record idx[j], no record twice.
Readings ==
    {idx \in [1..Len(result.documents) -> 1..Len(_ids)] :
        /\ \A a, b \in DOMAIN idx : a # b => idx[a] # idx[b]
        /\ \A j \in DOMAIN idx :
              /\ result.documents[j] = _docs[idx[j]]
              /\ result.metadatas[j] = _metas[idx[j]]
              /\ result.distances[j] = Distance(SimOf(idx[j]))}

\* C4: a query on a store of N records returns min(top_k, N) results, as three
\* sequences of that length whose position j is one stored record's document,
\* metadata and distance; similarity does not increase along the result, and
\* no record left out is strictly more similar than a record returned.
C4_QueryTopK ==
    call.op = "query" =>
        /\ Len(result.documents) = Min(call.top_k, Len(_ids))
        /\ Len(result.metadatas) = Len(result.documents)
        /\ Len(result.distances) = Len(result.documents)
        /\ \E idx \in Readings :
              /\ \A j \in 1..(Len(idx) - 1) : ~SimLT(SimOf(idx[j]), SimOf(idx[j + 1]))
              /\ \A m \in (1..Len(_ids)) \ Range(idx) :
                    \A j \in DOMAIN idx : ~SimLT(SimOf(idx[j]), SimOf(m))

\* A query has returned two of three records with three different
\* similarities, leaving out the least similar one.
C4_Witness ==
    /\ call.op = "query" /\ call.top_k = 2 /\ Len(_ids) = 3
    /\ Len(result.documents) = 2
    /\ \A a, b \in 1..3 : a # b => ~SimEq(SimOf(a), SimOf(b))

\* C5: among records of equal similarity the result keeps insertion order,
\* and when top_k cuts a group of equal similarity the earlier records are
\* the ones returned.
C5_StableTies ==
    call.op = "query" =>
        \E idx \in Readings :
            /\ \A j \in 1..(Len(idx) - 1) :
                  SimEq(SimOf(idx[j]), SimOf(idx[j + 1])) => idx[j] < idx[j + 1]
            /\ \A m \in (1..Len(_ids)) \ Range(idx) :
                  \A j \in DOMAIN idx : SimEq(SimOf(idx[j]), SimOf(m)) => idx[j] < m

---------------------------------------------------------------------------
(* chunking.py: chunk_text *)

\* The longest text chunk_text is given.
MaxLen == 6

\* The largest chunk_size and the largest overlap it is given.
MaxChunkSize == 5

MaxOverlap == 5

\* How far below zero chunk_size and overlap go where they may be negative,
\* and the most passes of the loop that are followed.
MaxBelow == 1

MaxPasses == 8

\* The characters of the input texts: a letter, a blank, a carriage return.
Alphabet == {"a", " ", "\r"}

IsSpace(c) == c \in {" ", "\t", "\n", "\r"}

\* s.replace("\r", "")
RECURSIVE RemoveCR(_)
RemoveCR(s) ==
    IF s = <<>> THEN <<>>
    ELSE IF Head(s) = "\r" THEN RemoveCR(Tail(s)) ELSE <<Head(s)>> \o RemoveCR(Tail(s))

\* s.strip()
RECURSIVE LStrip(_)
LStrip(s) == IF s # <<>> /\ IsSpace(Head(s)) THEN LStrip(Tail(s)) ELSE s

RECURSIVE RStrip(_)
RStrip(s) ==
    IF s # <<>> /\ IsSpace(s[Len(s)]) THEN RStrip(SubSeq(s, 1, Len(s) - 1)) ELSE s

Strip(s) == RStrip(LStrip(s))

\* s[a:b] of Python, for any integers a and b (indices count from 0, a
\* negative index counts from the end, out-of-range indices are clipped).
PySlice(s, a, b) ==
    LET n  == Len(s)
        lo == IF a < 0 THEN Max(a + n, 0) ELSE Min(a, n)
        hi == IF b < 0 THEN Max(b + n, 0) ELSE Min(b, n)
    IN  SubSeq(s, lo + 1, hi)

\* Mutant of EffectiveOverlap: the overlap is used as given.
EffectiveOverlap_as_given(size, ov) == ov

\* if overlap >= chunk_size: overlap = max(0, chunk_size // 5)
EffectiveOverlap(size, ov) == IF ov >= size THEN Max(0, size \div 5) ELSE ov

\* Mutant of WindowEnd: the slice runs one character too far.
WindowEnd_plus_one(st, size, n) == Min(st + size + 1, n)

\* end = min(start + chunk_size, n)
WindowEnd(st, size, n) == Min(st + size, n)

\* Mutant of NextStart: the overlap added instead of subtracted.
NextStart_plus(st, end, ov) == IF end + ov <= st THEN end ELSE end + ov

\* next_start = end - overlap; if next_start <= start: next_start = end
NextStart(st, end, ov) == IF end - ov <= st THEN end ELSE end - ov

\* chunk_text is called with a text, a chunk_size >= 1 and an overlap >= 0.
ChunkInit ==
    /\ cargs \in [text : SeqsOf(Alphabet, 0, MaxLen),
                  chunk_size : 1..MaxChunkSize,
                  overlap : 0..MaxOverlap]
    /\ text = cargs.text /\ chunk_size = cargs.chunk_size /\ overlap = cargs.overlap
    /\ start = 0 /\ chunks = <<>> /\ windows = <<>>
    /\ cpc = "call"
    /\ StoreOff /\ IngestOff /\ ExtraOff

\* Lines 4-13: normalise the text, return [] if it is empty, coerce the
\* overlap, start = 0.
ChunkBegin ==
    /\ cpc = "call"
    /\ text' = Strip(RemoveCR(text))
    /\ overlap' = IF text' = <<>> THEN overlap ELSE EffectiveOverlap(chunk_size, overlap)
    /\ cpc' = IF text' = <<>> THEN "done" ELSE "loop"
    /\ UNCHANGED <<cargs, chunk_size, start, chunks, windows>>
    /\ UNCHANGED <<storeVars, ingestVars, extraVars>>

\* Lines 15-30: the loop test and one pass through the loop body.
ChunkStep ==
    /\ cpc = "loop"
    /\ Len(windows) < MaxPasses
    /\ IF start < Len(text)
       THEN LET n     == Len(text)
                end   == WindowEnd(start, chunk_size, n)
                chunk == Strip(PySlice(text, start, end))
            IN  /\ chunks' = IF chunk # <<>> THEN Append(chunks, chunk) ELSE chunks
                /\ windows' = Append(windows, <<start, end>>)
                /\ IF end >= n
                   THEN cpc' = "done" /\ start' = start
                   ELSE cpc' = "loop" /\ start' = NextStart(start, end, overlap)
       ELSE cpc' = "done" /\ UNCHANGED <<start, chunks, windows>>
    /\ UNCHANGED <<cargs, text, chunk_size, overlap>>
    /\ UNCHANGED <<storeVars, ingestVars, extraVars>>

ChunkNext == ChunkBegin \/ ChunkStep

SpecChunk == ChunkInit /\ [][ChunkNext]_vars

\* ceil(a / b) for b >= 1.
CeilDiv(a, b) == (a + b - 1) \div b

\* C17: with n the length of the normalised text and e the effective overlap
\* (overlap when overlap < chunk_size, else chunk_size // 5), the loop makes
\* at most ceil(n / (chunk_size - e)) passes; pass k slices the text from
\* (k-1) * (chunk_size - e) over chunk_size characters or to the end of the
\* text, and the chunks returned are those slices, stripped, the empty ones
\* left out: so a call with overlap >= chunk_size returns what the call with
\* overlap = chunk_size // 5 returns.
C17_PassesBounded ==
    cpc \in {"loop", "done"} =>
        LET n    == Len(text)
            e    == IF cargs.overlap < cargs.chunk_size THEN cargs.overlap
                    ELSE cargs.chunk_size \div 5
            step == cargs.chunk_size - e
            cut  == [k \in 1..Len(windows) |->
                        Strip(PySlice(text, windows[k][1], windows[k][2]))]
        IN  /\ Len(windows) <= CeilDiv(n, step)
            /\ \A k \in 1..Len(windows) :
                  windows[k] = <<(k - 1) * step, Min((k - 1) * step + cargs.chunk_size, n)>>
            /\ chunks = SelectSeq(cut, LAMBDA c : c # <<>>)

\* chunk_text was called with overlap >= chunk_size and chunk_size // 5 >= 1,
\* and has returned after as many passes as the bound allows, the second
\* slice overlapping the first.
C17_Witness ==
    /\ cpc = "done" /\ cargs.overlap >= cargs.chunk_size /\ cargs.chunk_size \div 5 >= 1
    /\ Len(windows) >= 2 /\ windows[2][1] < windows[1][2]
    /\ Len(windows) = CeilDiv(Len(text), cargs.chunk_size - cargs.chunk_size \div 5)

\* chunk_text is called with a text and any two integers, which nothing in
\* the function or in chunk_docs rejects.
ChunkInitAny ==
    /\ cargs \in [text : SeqsOf(Alphabet, 0, MaxLen),
                  chunk_size : (-MaxBelow)..MaxChunkSize,
                  overlap : (-MaxBelow)..MaxOverlap]
    /\ text = cargs.text /\ chunk_size = cargs.chunk_size /\ overlap = cargs.overlap
    /\ start = 0 /\ chunks = <<>> /\ windows = <<>>
    /\ cpc = "call"
    /\ StoreOff /\ IngestOff /\ ExtraOff

SpecChunkAny == ChunkInitAny /\ [][ChunkNext]_vars

\* C8: chunk_text called with chunk_size >= 1 and overlap >= 0 terminates:
\* the loop test always finds start inside the text and start has advanced by
\* at least one per pass, so there are at most len(text) passes; and every
\* chunk emitted is non-empty and at most chunk_size long.
C8_ChunkBounded ==
    /\ \A k \in 1..Len(chunks) : Len(chunks[k]) >= 1 /\ Len(chunks[k]) <= cargs.chunk_size
    /\ cpc = "loop" => start < Len(text) /\ Len(windows) <= start
    /\ cpc = "done" => Len(windows) <= Len(text)

\* chunk_text has returned three chunks, after a pass that emitted nothing
\* from an all-blank slice.
C8_Witness ==
    /\ cpc = "done" /\ Len(chunks) = 3 /\ Len(windows) = 4
    /\ cargs.overlap >= cargs.chunk_size

\* C9: for chunk_size > overlap >= 0, the slices taken over the normalised
\* text leave no gap: the first starts at 0, each next one starts at or before
\* the end of the one before it, the last ends at len(text), so every index
\* 0..len(text)-1 lies in some slice.
C9_NoGap ==
    (cpc = "done" /\ cargs.chunk_size > cargs.overlap /\ text # <<>>) =>
        /\ windows # <<>>
        /\ windows[1][1] = 0
        /\ \A k \in 2..Len(windows) : windows[k][1] <= windows[k - 1][2]
        /\ windows[Len(windows)][2] = Len(text)
        /\ \A x \in 0..(Len(text) - 1) :
              \E k \in 1..Len(windows) : windows[k][1] <= x /\ x < windows[k][2]

\* chunk_text has returned after three overlapping slices of a text that
\* was trimmed on the way in.
C9_Witness ==
    /\ cpc = "done" /\ cargs.chunk_size > cargs.overlap /\ cargs.overlap >= 1
    /\ Len(windows) = 3 /\ Len(text) < Len(cargs.text)
    /\ windows[2][1] < windows[1][2]

---------------------------------------------------------------------------
(* ingest.py: main *)

\* BATCH_SIZE is 5 and ITEMS_PER_MIN_LIMIT is 95 in ingest.py. The model runs
\* the same loop with smaller values, so that inputs of a few chunks span
\* several batches and reach the limiter.
BATCH_SIZE == 2

ITEMS_PER_MIN_LIMIT == 3

\* The most chunks the input documents give, and the most ingestion runs.
MaxChunks == 4

MaxRuns == 2

\* What one call of the embedding service can do: return the vectors, raise a
\* ClientError that names RESOURCE_EXHAUSTED or 429, or raise another error.
EmbedOutcomes == {"ok", "rate_limit", "error"}

\* The places of main() at which a process is running.
Running == {"loop", "embed", "sleep", "retry", "add", "add_save"}

IdOf(c) == stable_id(c.metadata.source, c.metadata.page, c.text)

\* Mutant of ExistingIds: the ids already stored are not looked up.
ExistingIds_empty(ids) == {}

\* existing_ids = set(getattr(vdb, "_ids", []))
ExistingIds(ids) == Range(ids)

\* Lines 91-103: the chunks of all_chunks[i:i+BATCH_SIZE] whose id is not in
\* existing_ids, in order.
BatchOf(all, at, existing) ==
    SelectSeq(PySlice(all, at, at + BATCH_SIZE), LAMBDA c : IdOf(c) \notin existing)

\* throttle_if_needed(about_to_send), then the value of items_in_window;
\* elapsed says whether WINDOW_SECONDS have passed since window_start.
Throttled(in_window, about_to_send, elapsed) ==
    LET kept == IF elapsed THEN 0 ELSE in_window
    IN  IF kept + about_to_send > ITEMS_PER_MIN_LIMIT THEN 0 ELSE kept

\* Mutant of AfterFirstError: every ClientError is retried.
AfterFirstError_always_retry(outcome) == "sleep"

\* Lines 113-123: after the first embed_batch call raised, sleep and retry if
\* the error names RESOURCE_EXHAUSTED or 429, else re-raise.
AfterFirstError(outcome) == IF outcome = "rate_limit" THEN "sleep" ELSE "failed"

Event(ev, at, out) == [ev |-> ev, batch |-> at, out |-> out]

\* The records of the store, each with its embedding row.
Stored(ids, docs, metas, emb) ==
    [k \in 1..Len(ids) |->
        [id |-> ids[k], document |-> docs[k], metadata |-> metas[k],
         row |-> IF k <= Len(emb.rows) THEN emb.rows[k] ELSE <<>>]]

\* A fresh persist directory, the documents of data/raw already chunked (the
\* same documents in every run), and no process yet.
IngestInit ==
    /\ metaFile = NoMetaFile /\ embFile = NoEmbFile
    /\ _ids = <<>> /\ _docs = <<>> /\ _metas = <<>> /\ _emb = NoEmb
    /\ pc = "start" /\ call = NoCall /\ result = EmptyResult
    /\ all_chunks \in SeqsOf(Chunks, 0, MaxChunks)
    /\ existing_ids = {} /\ i = 0
    /\ batch_ids = <<>> /\ batch_docs = <<>> /\ batch_metas = <<>> /\ batch_embs = <<>>
    /\ items_in_window = 0 /\ run = 0 /\ trace = <<>> /\ committed = <<>>
    /\ lastRunOK = FALSE /\ crashedInAdd = FALSE
    /\ ChunkOff /\ ExtraOff

\* Lines 35-69: a new process runs main() up to the loop: VectorDB is
\* constructed, the documents are loaded and chunked, and main returns
\* there if there is no chunk.
StartRun ==
    /\ pc \in {"start", "done", "failed", "crashed"}
    /\ run < MaxRuns
    /\ run' = run + 1
    /\ _load
    /\ call' = LoadCall(metaFile, embFile)
    /\ existing_ids' = ExistingIds(_ids')
    /\ i' = 0 /\ items_in_window' = 0 /\ trace' = <<>>
    /\ batch_ids' = <<>> /\ batch_docs' = <<>> /\ batch_metas' = <<>> /\ batch_embs' = <<>>
    /\ pc' = IF all_chunks = <<>> THEN "done" ELSE "loop"
    /\ lastRunOK' = IF all_chunks = <<>> THEN TRUE ELSE lastRunOK
    /\ UNCHANGED <<result, all_chunks, committed, crashedInAdd, chunkVars, extraVars>>

\* Line 90 with no batch left, lines 133-134: main() returns.
LoopDone ==
    /\ pc = "loop" /\ i >= Len(all_chunks)
    /\ pc' = "done"
    /\ lastRunOK' = TRUE
    /\ UNCHANGED <<metaFile, embFile, _ids, _docs, _metas, _emb, call, result>>
    /\ UNCHANGED <<all_chunks, existing_ids, i, batch_ids, batch_docs, batch_metas,
                   batch_embs, items_in_window, run, trace, committed, crashedInAdd>>
    /\ UNCHANGED <<chunkVars, extraVars>>

\* Lines 91-108: the next batch is built; if every chunk of it is already
\* stored the loop goes on to the next one, else the limiter runs and the
\* batch goes to the embedding service.
BatchBegin(elapsed) ==
    /\ pc = "loop" /\ i < Len(all_chunks)
    /\ LET batch == BatchOf(all_chunks, i, existing_ids)
       IN  /\ batch_ids' = [k \in 1..Len(batch) |-> IdOf(batch[k])]
           /\ batch_docs' = [k \in 1..Len(batch) |-> batch[k].text]
           /\ batch_metas' = [k \in 1..Len(batch) |-> batch[k].metadata]
           /\ IF batch = <<>>
              THEN /\ i' = i + BATCH_SIZE
                   /\ pc' = "loop"
                   /\ UNCHANGED items_in_window
              ELSE /\ i' = i
                   /\ pc' = "embed"
                   /\ items_in_window' = Throttled(items_in_window, Len(batch), elapsed)
    /\ UNCHANGED <<metaFile, embFile, _ids, _docs, _metas, _emb, call, result>>
    /\ UNCHANGED <<all_chunks, existing_ids, batch_embs, run, trace, committed,
                   lastRunOK, crashedInAdd>>
    /\ UNCHANGED <<chunkVars, extraVars>>

\* Lines 110-123, the first embed_batch call of the batch.
Embed(outcome) ==
    /\ pc = "embed"
    /\ trace' = Append(trace, Event("embed", i, outcome))
    /\ IF outcome = "ok"
       THEN /\ batch_embs' = [k \in 1..Len(batch_docs) |-> EmbedOf(batch_docs[k])]
            /\ items_in_window' = items_in_window + Len(batch_docs)
            /\ pc' = "add"
            /\ UNCHANGED lastRunOK
       ELSE /\ pc' = AfterFirstError(outcome)
            /\ lastRunOK' = IF pc' = "failed" THEN FALSE ELSE lastRunOK
            /\ UNCHANGED <<batch_embs, items_in_window>>
    /\ UNCHANGED <<metaFile, embFile, _ids, _docs, _metas, _emb, call, result>>
    /\ UNCHANGED <<all_chunks, existing_ids, i, batch_ids, batch_docs, batch_metas,
                   run, committed, crashedInAdd>>
    /\ UNCHANGED <<chunkVars, extraVars>>

\* Line 117: time.sleep(55).
Cooldown ==
    /\ pc = "sleep"
    /\ trace' = Append(trace, Event("sleep", i, "-"))
    /\ pc' = "retry"
    /\ UNCHANGED <<metaFile, embFile, _ids, _docs, _metas, _emb, call, result>>
    /\ UNCHANGED <<all_chunks, existing_ids, i, batch_ids, batch_docs, batch_metas,
                   batch_embs, items_in_window, run, committed, lastRunOK, crashedInAdd>>
    /\ UNCHANGED <<chunkVars, extraVars>>

\* Lines 118-119, the second embed_batch call: whatever it raises leaves
\* main().
Retry(outcome) ==
    /\ pc = "retry"
    /\ trace' = Append(trace, Event("embed", i, outcome))
    /\ IF outcome = "ok"
       THEN /\ batch_embs' = [k \in 1..Len(batch_docs) |-> EmbedOf(batch_docs[k])]
            /\ items_in_window' = items_in_window + Len(batch_docs)
            /\ pc' = "add"
            /\ UNCHANGED lastRunOK
       ELSE /\ pc' = "failed"
            /\ lastRunOK' = FALSE
            /\ UNCHANGED <<batch_embs, items_in_window>>
    /\ UNCHANGED <<metaFile, embFile, _ids, _docs, _metas, _emb, call, result>>
    /\ UNCHANGED <<all_chunks, existing_ids, i, batch_ids, batch_docs, batch_metas,
                   run, committed, crashedInAdd>>
    /\ UNCHANGED <<chunkVars, extraVars>>

\* Lines 125-130: vdb.add is called and runs up to the line before np.save.
IngestAddAppend ==
    /\ pc = "add"
    /\ add_append(batch_ids, batch_embs, batch_docs, batch_metas)
    /\ trace' = Append(trace, Event("add", i, "-"))
    /\ call' = [NoCall EXCEPT !.op = "add"]
    /\ pc' = "add_save"
    /\ UNCHANGED <<result, all_chunks, existing_ids, i, batch_ids, batch_docs,
                   batch_metas, batch_embs, items_in_window, run, committed,
                   lastRunOK, crashedInAdd>>
    /\ UNCHANGED <<chunkVars, extraVars>>

\* np.save, vdb.add returns, line 131, and the loop moves to the next batch.
IngestAddSave ==
    /\ pc = "add_save"
    /\ add_save
    /\ trace' = Append(trace, Event("added", i, "-"))
    /\ existing_ids' = existing_ids \cup Range(batch_ids)
    /\ committed' = committed \o
           SubSeq(Stored(_ids, _docs, _metas, _emb),
                  Len(_ids) - Len(batch_ids) + 1, Len(_ids))
    /\ i' = i + BATCH_SIZE
    /\ pc' = "loop"
    /\ UNCHANGED <<call, result, all_chunks, batch_ids, batch_docs, batch_metas,
                   batch_embs, items_in_window, run, lastRunOK, crashedInAdd>>
    /\ UNCHANGED <<chunkVars, extraVars>>

\* The process is killed, at any place of the loop or inside vdb.add. Nothing
\* of the process is left: the object and the locals of main() are gone.
IngestCrash ==
    /\ pc \in Running
    /\ pc' = "crashed"
    /\ lastRunOK' = FALSE
    /\ crashedInAdd' = (crashedInAdd \/ pc = "add_save")
    /\ _ids' = <<>> /\ _docs' = <<>> /\ _metas' = <<>> /\ _emb' = NoEmb
    /\ call' = NoCall
    /\ existing_ids' = {} /\ i' = 0 /\ items_in_window' = 0 /\ trace' = <<>>
    /\ batch_ids' = <<>> /\ batch_docs' = <<>> /\ batch_metas' = <<>> /\ batch_embs' = <<>>
    /\ UNCHANGED <<metaFile, embFile, result, all_chunks, run, committed>>
    /\ UNCHANGED <<chunkVars, extraVars>>

IngestNext ==
    \/ StartRun
    \/ LoopDone
    \/ \E elapsed \in BOOLEAN : BatchBegin(elapsed)
    \/ \E outcome \in EmbedOutcomes : Embed(outcome)
    \/ Cooldown
    \/ \E outcome \in EmbedOutcomes : Retry(outcome)
    \/ IngestAddAppend
    \/ IngestAddSave
    \/ IngestCrash

SpecIngest == IngestInit /\ [][IngestNext]_vars

---------------------------------------------------------------------------
(* Claims about ingestion, checked under SpecIngest *)

IsPrefix(a, b) == Len(a) <= Len(b) /\ SubSeq(b, 1, Len(a)) = a

\* A process has constructed the store and is running or has left main().
Opened == pc \in Running \cup {"done", "failed"}

\* C6: once a run has reached the end of main(), a following run over the
\* same documents that is not killed changes neither file, loads and keeps
\* the same ids, documents, metadatas and rows in the same order, and makes
\* no embedding call and no add call.
C6_IdempotentIngest ==
    [][(lastRunOK /\ pc' # "crashed") =>
        /\ metaFile' = metaFile /\ embFile' = embFile
        /\ _ids' = _ids /\ _docs' = _docs /\ _metas' = _metas /\ _emb' = _emb
        /\ trace' = <<>>]_vars

\* A second run has ended on a store of at least three records written by
\* the first run in two batches.
C6_Witness ==
    /\ lastRunOK /\ run = 2 /\ pc = "done" /\ trace = <<>>
    /\ Len(_ids) >= 3 /\ Len(committed) = Len(_ids)
    /\ LogCount(metaFile) = Len(_ids)

EmbedsBefore(p, b) ==
    {r \in 1..(p - 1) : trace[r].ev = "embed" /\ trace[r].batch = b}

\* C10: in one run, a batch gets at most two embedding calls; a second call
\* comes only right after the cooldown that followed a rate-limit error of the
\* first; a failed second call, or a first call failing with another error,
\* is the last thing the run does (no add, no later batch); add is called
\* only right after a successful embedding call of the same batch; and every
\* add call of an earlier batch has returned before a batch is embedded.
C10_RetryOnceInOrder ==
    /\ \A p \in DOMAIN trace :
          LET b == trace[p].batch
          IN  /\ trace[p].ev = "embed" =>
                    /\ Cardinality(EmbedsBefore(p, b)) <= 1
                    /\ EmbedsBefore(p, b) # {} =>
                          /\ p >= 3
                          /\ trace[p - 1] = Event("sleep", b, "-")
                          /\ trace[p - 2] = Event("embed", b, "rate_limit")
                    /\ (trace[p].out = "error"
                            \/ (trace[p].out # "ok" /\ EmbedsBefore(p, b) # {})) =>
                          p = Len(trace) /\ pc = "failed"
                    /\ \A r \in 1..(p - 1) :
                          /\ trace[r].batch <= b
                          /\ trace[r].batch < b =>
                                \E d \in r..(p - 1) :
                                    trace[d] = Event("added", trace[r].batch, "-")
              /\ trace[p].ev = "sleep" =>
                    p >= 2 /\ trace[p - 1] = Event("embed", b, "rate_limit")
              /\ trace[p].ev = "add" =>
                    p >= 2 /\ trace[p - 1] = Event("embed", b, "ok")
              /\ trace[p].ev = "added" =>
                    p >= 2 /\ trace[p - 1] = Event("add", b, "-")
    /\ pc = "failed" =>
          /\ trace # <<>>
          /\ trace[Len(trace)].ev = "embed" /\ trace[Len(trace)].out # "ok"

\* A run has ended after two batches, one of them embedded at the second
\* call after a rate-limit error.
C10_Witness ==
    /\ pc = "done"
    /\ \E p \in DOMAIN trace : trace[p].out = "rate_limit"
    /\ Cardinality({p \in DOMAIN trace : trace[p].ev = "added"}) = 2

---------------------------------------------------------------------------
(* rag_agent.py: format_context *)

\* The longest ranked list format_context is given, and the largest budget.
MaxRanked == 3

MaxBudget == 60

\* cite = f"[{m.get('source')}, page {m.get('page')}]"
Cite(m) ==
    <<"[">> \o m.source \o <<",", " ", "p", "a", "g", "e", " ">> \o PageStr(m.page) \o <<"]">>

\* chunk = f"{cite}\n{d}\n"
TaggedChunk(d, m) == Cite(m) \o <<"\n">> \o d \o <<"\n">>

Separator == <<"\n", "-", "-", "-", "\n">>

\* sep.join(its)
RECURSIVE Join(_, _)
Join(sep, its) ==
    IF its = <<>> THEN <<>>
    ELSE IF Len(its) = 1 THEN its[1]
    ELSE its[1] \o sep \o Join(sep, Tail(its))

\* Mutant of Fits: the loop breaks on >=, so a chunk that would fill the
\* budget exactly is left out.
Fits_strictly(total, chunk, max_chars) == ~(total + Len(chunk) >= max_chars)

\* Line 31, negated: the chunk is kept when total + len(chunk) > max_chars
\* is false.
Fits(total, chunk, max_chars) == ~(total + Len(chunk) > max_chars)

\* Lines 28-34: the loop over zip(docs, metas, distances) from its k-th
\* element on, with the items and the total it has so far.
RECURSIVE FormatLoop(_, _, _, _, _, _, _)
FormatLoop(docs, metas, distances, max_chars, k, its, total) ==
    IF k > Min(Len(docs), Min(Len(metas), Len(distances))) THEN its
    ELSE LET chunk == TaggedChunk(docs[k], metas[k])
         IN  IF ~Fits(total, chunk, max_chars) THEN its
             ELSE FormatLoop(docs, metas, distances, max_chars, k + 1,
                             Append(its, chunk), total + Len(chunk))

\* Lines 26-34: the list items when the loop is over.
format_items(docs, metas, distances, max_chars) ==
    FormatLoop(docs, metas, distances, max_chars, 1, <<>>, 0)

\* format_context(docs, metas, distances, max_chars)
format_context(docs, metas, distances, max_chars) ==
    Join(Separator, format_items(docs, metas, distances, max_chars))

\* The three lists a query returns for the ranked records.
ArgsOf(ranked, max_chars) ==
    [docs      |-> [k \in 1..Len(ranked) |-> ranked[k].text],
     metas     |-> [k \in 1..Len(ranked) |-> ranked[k].metadata],
     distances |-> [k \in 1..Len(ranked) |-> Distance(CosSim(<<4, 0>>, ToF32(EmbedOf(ranked[k].text))))],
     max_chars |-> max_chars]

\* format_context is called with a ranked list of chunks and a budget.
FormatInit ==
    /\ fargs \in {ArgsOf(ranked, m) : ranked \in SeqsOf(Chunks, 0, MaxRanked), m \in 0..MaxBudget}
    /\ items = <<>> /\ context = <<>> /\ q_emb = <<>>
    /\ acalls = <<>> /\ response = "" /\ apc = "format"
    /\ StoreOff /\ IngestOff /\ ChunkOff /\ TornOff /\ ReaderOff /\ IdOff

\* The call runs and returns.
FormatCall ==
    /\ apc = "format"
    /\ items' = format_items(fargs.docs, fargs.metas, fargs.distances, fargs.max_chars)
    /\ context' = format_context(fargs.docs, fargs.metas, fargs.distances, fargs.max_chars)
    /\ apc' = "formatted"
    /\ UNCHANGED <<fargs, q_emb, acalls, response>>
    /\ UNCHANGED <<storeVars, ingestVars, chunkVars, tornVars, readerVars, idVars>>

FormatNext == FormatCall

SpecFormat == FormatInit /\ [][FormatNext]_vars

\* The citation-tagged chunks of the arguments, in ranked order.
Tagged == [k \in 1..Len(fargs.docs) |-> TaggedChunk(fargs.docs[k], fargs.metas[k])]

\* The summed length of the first n of them.
RECURSIVE TaggedSize(_)
TaggedSize(n) == IF n = 0 THEN 0 ELSE TaggedSize(n - 1) + Len(Tagged[n])

\* C13: the string format_context returns, separators included, is at most
\* max_chars long.
C13_ContextWithinBudget ==
    apc = "formatted" => Len(context) <= fargs.max_chars

\* C14: the chunks kept are the first n citation-tagged chunks, for the
\* largest n whose sizes sum to at most max_chars (so n >= 1 when the first
\* one fits), and the string returned is those n chunks, each whole, in
\* ranked order, with a separator between two neighbours and nothing else.
C14_GreedyPrefix ==
    apc = "formatted" =>
        LET n == Len(items)
        IN  /\ n <= Len(Tagged)
            /\ \A k \in 1..n : items[k] = Tagged[k]
            /\ TaggedSize(n) <= fargs.max_chars
            /\ n < Len(Tagged) => TaggedSize(n + 1) > fargs.max_chars
            /\ (Len(Tagged) >= 1 /\ Len(Tagged[1]) <= fargs.max_chars) => n >= 1
            /\ Len(context) = TaggedSize(n) + Len(Separator) * Max(n - 1, 0)
            /\ \A k \in 1..n :
                  LET off == TaggedSize(k - 1) + Len(Separator) * (k - 1)
                  IN  /\ SubSeq(context, off + 1, off + Len(Tagged[k])) = Tagged[k]
                      /\ k < n => SubSeq(context, off + Len(Tagged[k]) + 1,
                                         off + Len(Tagged[k]) + Len(Separator)) = Separator

\* Two of three chunks were kept, the second filling the budget exactly, and
\* the third, which is smaller than the second, was left out.
C14_Witness ==
    /\ apc = "formatted" /\ Len(Tagged) = 3 /\ Len(items) = 2
    /\ TaggedSize(2) = fargs.max_chars
    /\ Len(Tagged[3]) < Len(Tagged[2])

---------------------------------------------------------------------------
(* rag_agent.py: agentic_answer *)

\* retrieve(client, vdb, query, top_k=6)
TOP_K == 6

\* format_context's default max_chars is 9000 in rag_agent.py. The model runs
\* agentic_answer with a smaller value, so that a citation-tagged chunk of a
\* few characters can be larger than the budget.
MAX_CHARS == 16

\* The strings agentic_answer returns (their first lines), and the text of
\* the generation service.
MsgNoIndex == "I don't have any indexed documents yet."

MsgEmbedLimit == "Gemini API rate limit/quota reached while embedding your query."

MsgNoDocs == "The indexed documents do not mention this."

MsgNoContext == "The indexed documents do not contain enough relevant context to answer."

MsgGenLimit == "Gemini API rate limit/quota reached while generating the answer."

Generated == "resp.text"

ServiceCall(svc, out) == [svc |-> svc, out |-> out]

\* Line 56: not getattr(vdb, "_ids", [])
StoreEmpty(ids) == ids = <<>>

\* Line 74: not docs
NoDocs(docs) == docs = <<>>

\* Mutant of ContextEmpty: the context is not looked at.
ContextEmpty_never(ctx) == FALSE

\* Line 84: not context.strip()
ContextEmpty(ctx) == Strip(ctx) = <<>>

\* Lines 65-71 and 103-109: a ClientError that names RESOURCE_EXHAUSTED or
\* 429 makes agentic_answer return the advisory message; any other is raised
\* again.
OnClientError(outcome) == IF outcome = "rate_limit" THEN "returned" ELSE "raised"

\* A persist directory as ingestion runs have left it (any records, log and
\* matrix aligned), and a process that is about to call agentic_answer.
AnswerInit ==
    /\ \E stored \in SeqsOf(Chunks, 0, MaxRecords) :
          /\ metaFile = IF stored = <<>> THEN NoMetaFile
                        ELSE [exists |-> TRUE,
                              lines  |-> LogLines([k \in 1..Len(stored) |-> IdOf(stored[k])],
                                                  [k \in 1..Len(stored) |-> stored[k].text],
                                                  [k \in 1..Len(stored) |-> stored[k].metadata])]
          /\ embFile = IF stored = <<>> THEN NoEmbFile
                       ELSE [exists |-> TRUE,
                             rows   |-> [k \in 1..Len(stored) |-> ToF32(EmbedOf(stored[k].text))]]
    /\ _ids = <<>> /\ _docs = <<>> /\ _metas = <<>> /\ _emb = NoEmb
    /\ pc = "closed" /\ call = NoCall /\ result = EmptyResult
    /\ fargs = NoArgs /\ items = <<>> /\ context = <<>> /\ q_emb = <<>>
    /\ acalls = <<>> /\ response = "" /\ apc = "start"
    /\ IngestOff /\ ChunkOff /\ TornOff /\ ReaderOff /\ IdOff

\* Lines 50-60: the client and the VectorDB are constructed, and the answer
\* is the "no index" message if the store holds no id.
AnswerBegin ==
    /\ apc = "start"
    /\ _load
    /\ pc' = "idle"
    /\ call' = LoadCall(metaFile, embFile)
    /\ IF StoreEmpty(_ids')
       THEN apc' = "returned" /\ response' = MsgNoIndex
       ELSE apc' = "embed" /\ response' = response
    /\ UNCHANGED <<result, fargs, items, context, q_emb, acalls>>
    /\ UNCHANGED <<ingestVars, chunkVars, tornVars, readerVars, idVars>>

\* Lines 63-88: retrieve() embeds the question and queries the store; then
\* the two guards and format_context, up to the generation call.
AnswerRetrieve(outcome, embedding) ==
    /\ apc = "embed"
    /\ IF outcome # "ok"
       THEN /\ acalls' = Append(acalls, ServiceCall("embed", outcome))
            /\ apc' = OnClientError(outcome)
            /\ response' = IF apc' = "returned" THEN MsgEmbedLimit ELSE response
            /\ UNCHANGED <<call, result, fargs, items, context, q_emb>>
       ELSE /\ acalls' = acalls \o <<ServiceCall("embed", "ok"), ServiceCall("query", "ok")>>
            /\ q_emb' = embedding
            /\ call' = [NoCall EXCEPT !.op = "query", !.embedding = embedding, !.top_k = TOP_K]
            /\ result' \in query(embedding, TOP_K)
            /\ IF NoDocs(result'.documents)
               THEN /\ apc' = "returned" /\ response' = MsgNoDocs
                    /\ UNCHANGED <<fargs, items, context>>
               ELSE /\ fargs' = [docs |-> result'.documents, metas |-> result'.metadatas,
                                 distances |-> result'.distances, max_chars |-> MAX_CHARS]
                    /\ items' = format_items(fargs'.docs, fargs'.metas, fargs'.distances,
                                             fargs'.max_chars)
                    /\ context' = format_context(fargs'.docs, fargs'.metas, fargs'.distances,
                                                 fargs'.max_chars)
                    /\ IF ContextEmpty(context')
                       THEN apc' = "returned" /\ response' = MsgNoContext
                       ELSE apc' = "generate" /\ response' = response
    /\ UNCHANGED <<metaFile, embFile, _ids, _docs, _metas, _emb, pc>>
    /\ UNCHANGED <<ingestVars, chunkVars, tornVars, readerVars, idVars>>

\* Lines 100-109: the generation call.
AnswerGenerate(outcome) ==
    /\ apc = "generate"
    /\ acalls' = Append(acalls, ServiceCall("generate", outcome))
    /\ apc' = IF outcome = "ok" THEN "returned" ELSE OnClientError(outcome)
    /\ response' = IF outcome = "ok" THEN Generated
                   ELSE IF apc' = "returned" THEN MsgGenLimit ELSE response
    /\ UNCHANGED <<fargs, items, context, q_emb>>
    /\ UNCHANGED <<storeVars, ingestVars, chunkVars, tornVars, readerVars, idVars>>

AnswerNext ==
    \/ AnswerBegin
    \/ \E outcome \in EmbedOutcomes, embedding \in QueryVecs : AnswerRetrieve(outcome, embedding)
    \/ \E outcome \in EmbedOutcomes : AnswerGenerate(outcome)

SpecAnswer == AnswerInit /\ [][AnswerNext]_vars

\* The number of calls of a service agentic_answer has made.
CallsOf(svc) == Cardinality({p \in DOMAIN acalls : acalls[p].svc = svc})

\* C11: agentic_answer returns the advisory message for the embedding call,
\* or for the generation call, only after that call has failed twice with a
\* rate-limit error (the call and one retry); and it does not raise while
\* the last error is a rate-limit error.
C11_RetryBeforeAdvisory ==
    /\ response = MsgEmbedLimit =>
          /\ CallsOf("embed") = 2
          /\ \A p \in DOMAIN acalls : acalls[p].svc = "embed" => acalls[p].out = "rate_limit"
    /\ response = MsgGenLimit =>
          /\ CallsOf("generate") = 2
          /\ \A p \in DOMAIN acalls : acalls[p].svc = "generate" => acalls[p].out = "rate_limit"
    /\ (acalls # <<>> /\ acalls[Len(acalls)].out = "rate_limit") => apc # "raised"

\* C12: (a) when the store that was loaded holds no record, agentic_answer
\* has returned the "no index" message and has made no call at all; (b) when
\* the query has returned no document it has returned the "no documents"
\* message; (c) when the context is empty after format_context it has
\* returned the "no context" message; in (a), (b) and (c) no generation call
\* is made and nothing is raised, and the three messages differ.
C12_GuardsBeforeGeneration ==
    /\ (apc # "start" /\ _ids = <<>>) =>
          apc = "returned" /\ response = MsgNoIndex /\ acalls = <<>>
    /\ (CallsOf("query") = 1 /\ result.documents = <<>>) =>
          apc = "returned" /\ response = MsgNoDocs /\ CallsOf("generate") = 0
    /\ (CallsOf("query") = 1 /\ result.documents # <<>> /\ Strip(context) = <<>>) =>
          apc = "returned" /\ response = MsgNoContext /\ CallsOf("generate") = 0
    /\ response \in {MsgNoIndex, MsgNoDocs, MsgNoContext} =>
          apc = "returned" /\ CallsOf("generate") = 0
    /\ CallsOf("generate") >= 1 =>
          _ids # <<>> /\ result.documents # <<>> /\ Strip(context) # <<>>
    /\ MsgNoIndex # MsgNoDocs /\ MsgNoDocs # MsgNoContext /\ MsgNoIndex # MsgNoContext

\* The store held records, the question was embedded and the query returned
\* documents, the best of them did not fit the budget, and agentic_answer
\* returned the "no context" message.
C12_Witness ==
    /\ apc = "returned" /\ response = MsgNoContext
    /\ Len(_ids) >= 2 /\ Len(result.documents) >= 2 /\ items = <<>>
    /\ acalls = <<ServiceCall("embed", "ok"), ServiceCall("query", "ok")>>

---------------------------------------------------------------------------
(* SpecTorn: the store of Spec, with the two file writes of add() no longer *)
(* taken as indivisible. The lines of a batch reach the log through a       *)
(* buffered file object and np.save writes a header and then the data, so   *)
(* a kill can leave any byte prefix of either write on disk.                *)

\* _load raises: json.loads (line 38) on an incomplete last line, or np.load
\* (line 44) on a matrix file that was cut short.
LoadRaises == metaTorn \/ embTorn

\* VectorDB(...) in a new process, when nothing _load reads is incomplete.
TornConstruct ==
    /\ ~LoadRaises
    /\ Construct

\* VectorDB(...) in a new process raises out of _load: no object is made and
\* the files stay as they are.
ConstructRaises ==
    /\ pc \in {"closed", "crashed"}
    /\ LoadRaises
    /\ pc' = "raised"
    /\ UNCHANGED <<metaFile, embFile, _ids, _docs, _metas, _emb, call, result>>
    /\ UNCHANGED <<ingestVars, chunkVars, extraVars>>

\* The process is killed inside the log append of add() (lines 61-63): of
\* the lines of the batch the first k are on disk, followed, if frag, by a
\* piece of the next one.
CrashInLogWrite(batch, k, frag) ==
    /\ pc = "idle"
    /\ Len(_ids) + Len(batch) <= MaxRecords
    /\ k < Len(batch)
    /\ metaFile' = [exists |-> TRUE,
                    lines  |-> metaFile.lines \o
                               SubSeq(LogLines([j \in 1..Len(batch) |-> IdOf(batch[j])],
                                               [j \in 1..Len(batch) |-> batch[j].text],
                                               [j \in 1..Len(batch) |-> batch[j].metadata]),
                                      1, k)]
    /\ metaTorn' = frag
    /\ pc' = "crashed"
    /\ _ids' = <<>> /\ _docs' = <<>> /\ _metas' = <<>> /\ _emb' = NoEmb
    /\ call' = NoCall /\ result' = EmptyResult
    /\ UNCHANGED <<embFile, embTorn>>
    /\ UNCHANGED <<ingestVars, chunkVars, answerVars, readerVars, idVars>>

\* The process is killed inside np.save (line 75): the matrix file has been
\* opened for writing, which empties it, and holds the first k rows at most.
CrashInSave(k) ==
    /\ pc = "add_save"
    /\ k < Len(_emb.rows)
    /\ embFile' = [exists |-> TRUE, rows |-> SubSeq(_emb.rows, 1, k)]
    /\ embTorn' = TRUE
    /\ pc' = "crashed"
    /\ _ids' = <<>> /\ _docs' = <<>> /\ _metas' = <<>> /\ _emb' = NoEmb
    /\ call' = NoCall /\ result' = EmptyResult
    /\ UNCHANGED <<metaFile, metaTorn>>
    /\ UNCHANGED <<ingestVars, chunkVars, answerVars, readerVars, idVars>>

TornNext ==
    \/ TornConstruct
    \/ ConstructRaises
    \/ \E batch \in SeqsOf(Chunks, 1, MaxBatch) : AddAppend(batch)
    \/ AddSave
    \/ Close
    \/ Crash
    \/ \E batch \in SeqsOf(Chunks, 1, MaxBatch), k \in 0..(MaxBatch - 1), frag \in BOOLEAN :
          CrashInLogWrite(batch, k, frag)
    \/ \E k \in 0..(MaxRecords - 1) : CrashInSave(k)

SpecTorn == Init /\ [][TornNext]_vars

\* C15: a construction of VectorDB that follows an add, interrupted at any
\* byte or not, does not raise, and the store it gives has one row per
\* record, as many log lines and file rows as records, and beside every
\* record the embedding of that record's document.
C15_LoadAfterInterruptedAdd ==
    [][(pc \in {"closed", "crashed"} /\ pc' # pc) =>
        /\ pc' = "idle"
        /\ Len(_docs') = Len(_ids') /\ Len(_metas') = Len(_ids')
        /\ Len(_emb'.rows) = Len(_ids')
        /\ LogCount(metaFile') = Len(_ids') /\ FileRows(embFile') = Len(_ids')
        /\ \A k \in 1..Len(_ids') : _emb'.rows[k] = ToF32(EmbedOf(_docs'[k]))]_vars

---------------------------------------------------------------------------
(* Claims about chunk_text for any integers, checked under SpecChunkAny *)

\* C16: a pass of the loop that does not leave the loop ends with start
\* strictly greater than it was, whatever integers chunk_size and overlap are.
C16_StrictProgress ==
    [][(cpc = "loop" /\ cpc' = "loop") => start' > start]_vars

---------------------------------------------------------------------------
(* Further claims about ingestion, checked under SpecIngest *)

\* C18: the ids of the store are pairwise distinct, in memory and in the log,
\* and a batch handed to add holds no id twice and no id of the store.
C18_DistinctIds ==
    /\ \A a, b \in 1..Len(_ids) : a # b => _ids[a] # _ids[b]
    /\ \A a, b \in 1..Len(metaFile.lines) : a # b => metaFile.lines[a].id # metaFile.lines[b].id
    /\ pc = "add" =>
          /\ \A a, b \in 1..Len(batch_ids) : a # b => batch_ids[a] # batch_ids[b]
          /\ \A a \in 1..Len(batch_ids) : batch_ids[a] \notin Range(_ids)

---------------------------------------------------------------------------
(* SpecShared: the single writer of Spec (an ingestion process that adds    *)
(* batches, exits and is started again), and beside it query processes,     *)
(* each of which constructs its own VectorDB on the same two files.         *)

\* A query process starts: __init__ and lines 35-41 of _load, the log read
\* into the new object's lists.
ReaderReadLog ==
    /\ reader.pc \in {"none", "loaded"}
    /\ LET recs == ReadLog(metaFile)
       IN  reader' = [pc     |-> "read_log",
                      _ids   |-> [k \in 1..Len(recs) |-> recs[k].id],
                      _docs  |-> [k \in 1..Len(recs) |-> recs[k].document],
                      _metas |-> [k \in 1..Len(recs) |-> recs[k].metadata],
                      _emb   |-> NoEmb]
    /\ UNCHANGED <<storeVars, ingestVars, chunkVars, answerVars, tornVars, idVars>>

\* Lines 43-55 of _load in the query process: the matrix is read, and on a
\* mismatch the object is emptied and both files are removed.
ReaderCheck ==
    /\ reader.pc = "read_log"
    /\ LET emb == ReadEmb(embFile)
       IN  IF Mismatch(reader._ids, emb)
           THEN /\ reader' = [NoReader EXCEPT !.pc = "loaded"]
                /\ metaFile' = NoMetaFile
                /\ embFile' = NoEmbFile
           ELSE /\ reader' = [reader EXCEPT !.pc = "loaded", !._emb = emb]
                /\ UNCHANGED <<metaFile, embFile>>
    /\ UNCHANGED <<_ids, _docs, _metas, _emb, pc, call, result>>
    /\ UNCHANGED <<ingestVars, chunkVars, answerVars, tornVars, idVars>>

SharedNext ==
    \/ Construct
    \/ \E batch \in SeqsOf(Chunks, 1, MaxBatch) : AddAppend(batch)
    \/ AddSave
    \/ Close
    \/ ReaderReadLog
    \/ ReaderCheck

SpecShared == Init /\ [][SharedNext]_vars

\* C19: no step of a query process changes or removes the log or the matrix
\* file, and when the writer, whose add calls have all returned, is followed
\* by a new construction, the store that is loaded holds every record and
\* row the writer held.
C19_ReaderKeepsStore ==
    [][/\ reader' # reader => (metaFile' = metaFile /\ embFile' = embFile)
       /\ (pc = "closed" /\ pc' = "idle") =>
             /\ _ids' = _ids /\ _docs' = _docs /\ _metas' = _metas
             /\ _emb'.rows = _emb.rows]_vars

---------------------------------------------------------------------------
(* SpecId: stable_id applied to two chunks *)

\* The largest page number of a chunk.
MaxPage == 11

\* The (source, page, text) triples stable_id is given: a file name, None
\* (a text file) or a page number (a PDF), and the text of a chunk.
Triples ==
    [source : {<<"a">>, <<"a", "1">>},
     page   : {None} \cup {<<p>> : p \in 1..MaxPage},
     text   : {<<"x">>, <<"1", "x">>}]

IdInit ==
    /\ id_args \in Triples \X Triples
    /\ id_out = <<>> /\ id_pc = "call"
    /\ StoreOff /\ IngestOff /\ ChunkOff /\ AnswerOff /\ TornOff /\ ReaderOff

\* stable_id is called on the two chunks, as the loop of ingest.py does.
IdCall ==
    /\ id_pc = "call"
    /\ id_out' = <<stable_id(id_args[1].source, id_args[1].page, id_args[1].text),
                   stable_id(id_args[2].source, id_args[2].page, id_args[2].text)>>
    /\ id_pc' = "done"
    /\ UNCHANGED id_args
    /\ UNCHANGED <<storeVars, ingestVars, chunkVars, answerVars, tornVars, readerVars>>

IdNext == IdCall

SpecId == IdInit /\ [][IdNext]_vars

\* C20: two chunks get the same id exactly when their source, page and text
\* are the same.
C20_IdIdentifiesTriple ==
    id_pc = "done" => (id_out[1] = id_out[2] <=> id_args[1] = id_args[2])

===========================================================================
